---------------------------- MODULE Spec2Model ----------------------------
(***************************************************************************)
(* Scan-based pass prediction and city coverage analysis of sattracker     *)
(* (src/sattracker/calculator.py, src/sattracker/coverage.py).             *)
(*                                                                         *)
(* Units.  Instants are whole seconds after `now` (the datetime.now() the  *)
(* function reads on entry).  Elevations and min_elevation are hundredths  *)
(* of a degree.  round(x, 1) of an elevation is therefore a multiple of 10 *)
(* hundredths.  coverage_percentage is kept in hundredths of a percent,    *)
(* the *_minutes fields and avg_pass_duration_seconds in tenths.           *)
(*                                                                         *)
(* hours enters the arithmetic as hours * 3600 (and as                     *)
(* timedelta(hours=hours), the same length); the model carries that        *)
(* product (total_seconds) so that horizons of a few scan steps can be     *)
(* enumerated.                                                             *)
(*                                                                         *)
(* SGP4 and the frame geometry are not computed: the outcome of            *)
(* _propagate followed by _elevation_from_observer at one (satellite,      *)
(* instant) is an input, a record [error, el] drawn from Samples.          *)
(* hist is the record of the outcomes _propagate has given, by step index, *)
(* for the satellite of the scan that keeps it.                            *)
(***************************************************************************)
EXTENDS Integers, Sequences, FiniteSets, TLC

VARIABLES call, pp, cc, gt, cc2, cp, hist

vars == <<call, pp, cc, gt, cc2, cp, hist>>

----------------------------------------------------------------------------
(* Bounds of the enumeration *)

MaxSteps == 4

\* Calls of calculate_position made in one run.
PositionCalls == 2

(* Program constants *)

PassStepSeconds == 30

----------------------------------------------------------------------------
(* Inputs *)

SatA == [name |-> "A", norad_id |-> 1]
SatB == [name |-> "B", norad_id |-> 2]

SatelliteLists == {<<SatA>>, <<SatA, SatB>>, <<SatB, SatA>>}

\* Another catalogue object carrying the name of SatA.
SatA2 == [name |-> "A", norad_id |-> 3]

TrackLists == SatelliteLists \cup {<<SatA, SatA2>>}

Horizons == {0, PassStepSeconds * MaxSteps}

StepChoices == {-30, 0, 30, 50}

MinElevations == {0, 500, 1004}

Elevations == {-500, 0, 500, 1004, 2000}

Samples ==
    {[error |-> 1, el |-> 0]} \cup {[error |-> 0, el |-> e] : e \in Elevations}

None == -1

Idle == [pc |-> "idle"]

----------------------------------------------------------------------------
(* Arithmetic of the Python built-ins the code uses *)

\* int(n / d) for d # 0: true division, then truncation toward zero.
IntTrunc(n, d) ==
    IF (n >= 0) = (d > 0) THEN (IF n >= 0 THEN n \div d ELSE (-n) \div (-d))
    ELSE -((IF n >= 0 THEN n ELSE -n) \div (IF d > 0 THEN d ELSE -d))

\* The integer nearest to n / d (d > 0), an exact tie going to the even one:
\* round() of the quotient scaled to the kept decimals.  Python rounds the
\* binary double, so a decimal tie that is no exact double goes to whichever
\* side the double lies on; the quotients reachable here have no such tie
\* (their ties are multiples of 0.25, which are exact).
RoundDiv(n, d) ==
    LET q == n \div d
        r == n % d
    IN  IF 2 * r < d THEN q
        ELSE IF 2 * r > d THEN q + 1
        ELSE IF q % 2 = 0 THEN q ELSE q + 1

\* round(x, 1) of an elevation x in hundredths of a degree, in hundredths.
Round1(x) == 10 * RoundDiv(x, 10)

----------------------------------------------------------------------------
(* predict_passes *)

Failed(result) == result.error # 0

\* Mutant: the peak time reported is the instant the pass closes.
PassPrediction_PeakAtSet(f, t) ==
    [satellite_name     |-> f.sat.name,
     norad_id           |-> f.sat.norad_id,
     rise_time          |-> f.rise_time,
     set_time           |-> t,
     max_elevation_time |-> t,
     max_elevation_deg  |-> Round1(f.max_el),
     duration_seconds   |-> t - f.rise_time]

PassPrediction(f, t) ==
    [satellite_name     |-> f.sat.name,
     norad_id           |-> f.sat.norad_id,
     rise_time          |-> f.rise_time,
     set_time           |-> t,
     max_elevation_time |-> f.max_el_time,
     max_elevation_deg  |-> Round1(f.max_el),
     duration_seconds   |-> t - f.rise_time]

\* Mutant: a failed propagation is taken as loss of sight.
PassOnFailure_LosesPass(f) == [f EXCEPT !.in_pass = FALSE]

\* if result is None: continue
PassOnFailure(f) == f

\* if el > 0 and not in_pass
PassRises(f, el) == el > 0 /\ ~f.in_pass

\* Mutant: the rise time of the first pass is kept for the later ones.
PassRise_KeepsFirstRise(f, t, el) ==
    [f EXCEPT !.in_pass = TRUE,
              !.rise_time = IF f.rise_time = None THEN t ELSE f.rise_time,
              !.max_el = el, !.max_el_time = t]

PassRise(f, t, el) ==
    [f EXCEPT !.in_pass = TRUE, !.rise_time = t, !.max_el = el, !.max_el_time = t]

\* Mutant: an elevation equal to the peak so far moves the peak.
PassPeaks_LastTie(f, el) == el >= f.max_el /\ f.in_pass

\* elif el > max_el and in_pass
PassPeaks(f, el) == el > f.max_el /\ f.in_pass

PassPeak(f, t, el) == [f EXCEPT !.max_el = el, !.max_el_time = t]

\* Mutant: an elevation of exactly 0 does not close the pass.
PassSets_BelowOnly(f, el) == el < 0 /\ f.in_pass

\* elif el <= 0 and in_pass
PassSets(f, el) == el <= 0 /\ f.in_pass

PassSet(f, t) ==
    IF f.max_el >= f.min_elevation
    THEN [f EXCEPT !.in_pass = FALSE,
                   !.passes = Append(f.passes, PassPrediction(f, t))]
    ELSE [f EXCEPT !.in_pass = FALSE]

\* The if / elif chain on the elevation el at t (lines 197-218).
PassOnElevation(f, t, el) ==
    IF PassRises(f, el) THEN PassRise(f, t, el)
    ELSE IF PassPeaks(f, el) THEN PassPeak(f, t, el)
    ELSE IF PassSets(f, el) THEN PassSet(f, t)
    ELSE f

\* One iteration of the scan loop on the propagation outcome `result` at t.
PassBody(f, t, result) ==
    LET g == [f EXCEPT !.t = t, !.result = result]
    IN  IF Failed(result) THEN PassOnFailure(g) ELSE PassOnElevation(g, t, result.el)

\* Mutant: a pass still open after the last step is closed at the horizon end.
PassesReturned_FlushOpen(f) ==
    IF f.in_pass /\ f.max_el >= f.min_elevation
    THEN Append(f.passes, PassPrediction(f, f.total_seconds))
    ELSE f.passes

\* return passes
PassesReturned(f) == f.passes

\* The frame of a call predict_passes(sat, hours = total_seconds / 3600,
\* min_elevation), before its first statement.
PassFrame(sat, total_seconds, min_elevation) ==
    [pc |-> "entry", sat |-> sat, total_seconds |-> total_seconds,
     min_elevation |-> min_elevation, steps |-> 0, i |-> 0, t |-> None,
     result |-> [error |-> 0, el |-> 0], passes |-> << >>, in_pass |-> FALSE,
     rise_time |-> None, max_el |-> 0, max_el_time |-> None, returned |-> << >>]

\* now, step, steps and the initial scan state (lines 179-187).
PassEntry(f) ==
    [f EXCEPT !.pc = "loop",
              !.steps = IntTrunc(f.total_seconds, PassStepSeconds),
              !.i = 0,
              !.passes = << >>,
              !.in_pass = FALSE,
              !.rise_time = None,
              !.max_el = 0,
              !.max_el_time = None]

\* Mutant: the scan instants are counted from one step after now.
PassStep_FromOne(f, result) ==
    [PassBody(f, PassStepSeconds * (f.i + 1), result) EXCEPT !.i = f.i + 1]

\* for i in range(steps): t = now + step * i, then the body.
PassStep(f, result) ==
    [PassBody(f, PassStepSeconds * f.i, result) EXCEPT !.i = f.i + 1]

PassReturn(f) == [f EXCEPT !.pc = "done", !.returned = PassesReturned(f)]

PredictPassesEntry ==
    /\ call = "predict_passes"
    /\ pp.pc = "entry"
    /\ pp' = PassEntry(pp)
    /\ hist' = << >>
    /\ UNCHANGED <<call, cc, gt, cc2, cp>>

PredictPassesStep ==
    /\ call = "predict_passes"
    /\ pp.pc = "loop"
    /\ pp.i < pp.steps
    /\ \E result \in Samples :
         /\ pp' = PassStep(pp, result)
         /\ hist' = Append(hist, result)
    /\ UNCHANGED <<call, cc, gt, cc2, cp>>

PredictPassesReturn ==
    /\ call = "predict_passes"
    /\ pp.pc = "loop"
    /\ pp.i >= pp.steps
    /\ pp' = PassReturn(pp)
    /\ UNCHANGED <<call, cc, gt, cc2, cp, hist>>

----------------------------------------------------------------------------
(* compute_city_coverage *)

CoverageWindow(f, t) ==
    [satellite_name    |-> f.satellites[f.s].name,
     norad_id          |-> f.satellites[f.s].norad_id,
     start_time        |-> f.window_start,
     end_time          |-> t,
     max_elevation_deg |-> Round1(f.max_el),
     duration_seconds  |-> t - f.window_start]

\* Mutant: the latest elevation replaces the peak so far.
Max_Latest(a, b) == b

Max(a, b) == IF a >= b THEN a ELSE b

\* if result is None: continue
CoverageOnFailure(f) == f

\* Mutant: the horizon state machine of predict_passes, threshold at closing.
CoverageOnElevation_Horizon(f, t, el) ==
    IF el > 0 /\ ~f.in_view
    THEN [f EXCEPT !.in_view = TRUE, !.window_start = t, !.max_el = el]
    ELSE IF el > 0 /\ f.in_view
    THEN [f EXCEPT !.max_el = Max(f.max_el, el)]
    ELSE IF el <= 0 /\ f.in_view
    THEN IF f.max_el >= f.min_elevation_deg
         THEN [f EXCEPT !.in_view = FALSE,
                        !.windows = Append(f.windows, CoverageWindow(f, t))]
         ELSE [f EXCEPT !.in_view = FALSE]
    ELSE f

\* The if / elif chain on the elevation el at t (lines 125-141).
CoverageOnElevation(f, t, el) ==
    IF el >= f.min_elevation_deg /\ ~f.in_view
    THEN [f EXCEPT !.in_view = TRUE, !.window_start = t, !.max_el = el]
    ELSE IF el >= f.min_elevation_deg /\ f.in_view
    THEN [f EXCEPT !.max_el = Max(f.max_el, el)]
    ELSE IF el < f.min_elevation_deg /\ f.in_view
    THEN [f EXCEPT !.in_view = FALSE,
                   !.windows = Append(f.windows, CoverageWindow(f, t))]
    ELSE f

\* One iteration of the inner scan loop on the propagation outcome at t.
CoverageBody(f, t, result) ==
    LET g == [f EXCEPT !.t = t, !.result = result]
    IN  IF Failed(result) THEN CoverageOnFailure(g)
        ELSE CoverageOnElevation(g, t, result.el)

\* list.sort(key=start_time): stable, ascending.
RECURSIVE InsertByStart(_, _)
InsertByStart(sorted, w) ==
    IF sorted = << >> THEN <<w>>
    ELSE LET last == sorted[Len(sorted)]
         IN  IF last.start_time <= w.start_time THEN Append(sorted, w)
             ELSE Append(InsertByStart(SubSeq(sorted, 1, Len(sorted) - 1), w), last)

\* Mutant: the combined list is left in collection order.
SortByStart_Unsorted(ws) == ws

RECURSIVE SortByStart(_)
SortByStart(ws) ==
    IF ws = << >> THEN << >>
    ELSE InsertByStart(SortByStart(SubSeq(ws, 1, Len(ws) - 1)), ws[Len(ws)])

RECURSIVE Sum(_)
Sum(xs) == IF xs = << >> THEN 0 ELSE xs[1] + Sum(Tail(xs))

RECURSIVE MaxOf(_)
MaxOf(xs) == IF Len(xs) = 1 THEN xs[1] ELSE Max(xs[1], MaxOf(Tail(xs)))

TotalCoverage(ws) == Sum([k \in 1..Len(ws) |-> ws[k].duration_seconds])

\* Mutant: the percentage is clamped to 100.
CoveragePct_Clamped(total_coverage, total_seconds) ==
    IF total_coverage >= total_seconds THEN 10000
    ELSE RoundDiv(total_coverage * 10000, total_seconds)

\* round((total_coverage / total_seconds) * 100, 2), in hundredths of a percent.
CoveragePct(total_coverage, total_seconds) ==
    RoundDiv(total_coverage * 10000, total_seconds)

Span(from, to) == IF to - from > 0 THEN <<[from |-> from, to |-> to]>> ELSE << >>

RECURSIVE BetweenSpans(_, _)
BetweenSpans(ws, i) ==
    IF i > Len(ws) THEN << >>
    ELSE Span(ws[i - 1].end_time, ws[i].start_time) \o BetweenSpans(ws, i + 1)

\* Mutant: no gap is recorded when there is no window.
GapSpans_NoFallback(ws, total_seconds) ==
    IF ws # << >>
    THEN Span(0, ws[1].start_time)
         \o BetweenSpans(ws, 2)
         \o Span(ws[Len(ws)].end_time, total_seconds)
    ELSE << >>

\* Mutant: the stretch before the first window is not counted.
GapSpans_NoLeading(ws, total_seconds) ==
    IF ws # << >>
    THEN BetweenSpans(ws, 2) \o Span(ws[Len(ws)].end_time, total_seconds)
    ELSE <<[from |-> 0, to |-> total_seconds]>>

\* The intervals whose lengths the code appends to gaps, in order; ws is sorted.
GapSpans(ws, total_seconds) ==
    IF ws # << >>
    THEN Span(0, ws[1].start_time)
         \o BetweenSpans(ws, 2)
         \o Span(ws[Len(ws)].end_time, total_seconds)
    ELSE <<[from |-> 0, to |-> total_seconds]>>

Gaps(ws, total_seconds) ==
    LET spans == GapSpans(ws, total_seconds)
    IN  [k \in 1..Len(spans) |-> spans[k].to - spans[k].from]

\* Mutant: the gaps are summed, not averaged.
AvgGap_SumOnly(gaps) == IF gaps # << >> THEN RoundDiv(Sum(gaps) * 10, 60) ELSE 0

\* round(avg_gap, 1), in tenths of a minute.
AvgGap(gaps) == IF gaps # << >> THEN RoundDiv(Sum(gaps) * 10, Len(gaps) * 60) ELSE 0

\* round(max_gap, 1), in tenths of a minute.
MaxGap(gaps, total_seconds) ==
    IF gaps # << >> THEN RoundDiv(MaxOf(gaps) * 10, 60)
    ELSE RoundDiv(total_seconds * 10, 60)

\* round(avg_pass, 1), in tenths of a second.
AvgPass(total_coverage, ws) ==
    IF ws # << >> THEN RoundDiv(total_coverage * 10, Len(ws)) ELSE 0

CityCoverageReport(ws, gaps, total_seconds) ==
    [analysis_seconds          |-> total_seconds,
     total_coverage_seconds    |-> TotalCoverage(ws),
     coverage_percentage       |-> CoveragePct(TotalCoverage(ws), total_seconds),
     num_passes                |-> Len(ws),
     avg_gap_minutes           |-> AvgGap(gaps),
     max_gap_minutes           |-> MaxGap(gaps, total_seconds),
     avg_pass_duration_seconds |-> AvgPass(TotalCoverage(ws), ws),
     windows                   |-> ws]

NoReport == [num_passes |-> None]

\* The frame of a call compute_city_coverage(satellites, hours =
\* total_seconds / 3600, step_seconds, min_elevation_deg).
CoverageFrame(satellites, total_seconds, step_seconds, min_elevation_deg) ==
    [pc |-> "entry", satellites |-> satellites, total_seconds |-> total_seconds,
     step_seconds |-> step_seconds, min_elevation_deg |-> min_elevation_deg,
     num_steps |-> 0, windows |-> << >>, s |-> 0, i |-> 0,
     t |-> None, result |-> [error |-> 0, el |-> 0],
     in_view |-> FALSE, window_start |-> None, max_el |-> 0,
     gaps |-> << >>, report |-> NoReport, error |-> "none"]

\* Mutant: the scan takes one step more, up to the end of the horizon.
CoverageEntry_Inclusive(f) ==
    IF f.step_seconds = 0
    THEN [f EXCEPT !.pc = "raised", !.error = "ZeroDivisionError"]
    ELSE [f EXCEPT !.pc = "sat", !.windows = << >>,
                   !.num_steps = IntTrunc(f.total_seconds, f.step_seconds) + 1]

\* now, num_steps, windows = [] (lines 108-110); step_seconds = 0 raises.
CoverageEntry(f) ==
    IF f.step_seconds = 0
    THEN [f EXCEPT !.pc = "raised", !.error = "ZeroDivisionError"]
    ELSE [f EXCEPT !.pc = "sat", !.windows = << >>,
                   !.num_steps = IntTrunc(f.total_seconds, f.step_seconds)]

\* Mutant: the scan state of the previous satellite is carried over.
CoverageNextSat_NoReset(f) == [f EXCEPT !.pc = "loop", !.s = f.s + 1, !.i = 0]

\* for sat in satellites: reset of the per-satellite scan state.
CoverageNextSat(f) ==
    [f EXCEPT !.pc = "loop", !.s = f.s + 1, !.i = 0,
              !.in_view = FALSE, !.window_start = None, !.max_el = 0]

\* for i in range(num_steps): t = now + i * step_seconds, then the body.
CoverageStep(f, result) ==
    [CoverageBody(f, f.step_seconds * f.i, result) EXCEPT !.i = f.i + 1]

\* The report returned (lines 169-181).
CoverageReturn(f, ws, gaps) ==
    [f EXCEPT !.pc = "done", !.windows = ws, !.gaps = gaps,
              !.report = CityCoverageReport(ws, gaps, f.total_seconds)]

\* The statistics (lines 145-167), with the local gaps evaluated once; a zero
\* total_seconds raises at the percentage.
CoverageStatistics(f, ws) ==
    IF f.total_seconds = 0
    THEN [f EXCEPT !.pc = "raised", !.error = "ZeroDivisionError", !.windows = ws]
    ELSE CHOOSE g \in {CoverageReturn(f, ws, gaps) :
                          gaps \in {Gaps(ws, f.total_seconds)}} : TRUE

\* windows.sort, the statistics and the report (lines 143-181), with the
\* sorted windows evaluated once.
CoverageFinish(f) ==
    CHOOSE g \in {CoverageStatistics(f, ws) : ws \in {SortByStart(f.windows)}} : TRUE

CityCoverageEntry ==
    /\ call = "compute_city_coverage"
    /\ cc.pc = "entry"
    /\ cc' = CoverageEntry(cc)
    /\ UNCHANGED <<call, pp, gt, cc2, cp, hist>>

CityCoverageNextSat ==
    /\ call = "compute_city_coverage"
    /\ cc.pc = "sat"
    /\ cc.s < Len(cc.satellites)
    /\ cc' = CoverageNextSat(cc)
    /\ UNCHANGED <<call, pp, gt, cc2, cp, hist>>

CityCoverageStep ==
    /\ call = "compute_city_coverage"
    /\ cc.pc = "loop"
    /\ cc.i < cc.num_steps
    /\ \E result \in Samples : cc' = CoverageStep(cc, result)
    /\ UNCHANGED <<call, pp, gt, cc2, cp, hist>>

CityCoverageEndSat ==
    /\ call = "compute_city_coverage"
    /\ cc.pc = "loop"
    /\ cc.i >= cc.num_steps
    /\ cc' = [cc EXCEPT !.pc = "sat"]
    /\ UNCHANGED <<call, pp, gt, cc2, cp, hist>>

CityCoverageFinish ==
    /\ call = "compute_city_coverage"
    /\ cc.pc = "sat"
    /\ cc.s >= Len(cc.satellites)
    /\ cc' = CoverageFinish(cc)
    /\ UNCHANGED <<call, pp, gt, cc2, cp, hist>>

----------------------------------------------------------------------------
(* compute_ground_tracks *)

\* The point appended for a successful propagation at t; latitude, longitude
\* and altitude come from the geometry, which is not computed.
GroundTrackPoint(t) == [timestamp |-> t]

\* The frame of a call compute_ground_tracks(satellites, hours =
\* total_seconds / 3600, step_seconds).
TracksFrame(satellites, total_seconds, step_seconds) ==
    [pc |-> "entry", satellites |-> satellites, total_seconds |-> total_seconds,
     step_seconds |-> step_seconds, num_steps |-> 0, s |-> 0, i |-> 0,
     points |-> << >>, tracks |-> << >>, error |-> "none"]

\* now, num_steps, tracks = {} (lines 70-72); step_seconds = 0 raises.
TracksEntry(f) ==
    IF f.step_seconds = 0
    THEN [f EXCEPT !.pc = "raised", !.error = "ZeroDivisionError"]
    ELSE [f EXCEPT !.pc = "sat", !.tracks = << >>,
                   !.num_steps = IntTrunc(f.total_seconds, f.step_seconds)]

TracksNextSat(f) == [f EXCEPT !.pc = "loop", !.s = f.s + 1, !.i = 0, !.points = << >>]

TracksBody(f, t, result) ==
    IF Failed(result) THEN f
    ELSE [f EXCEPT !.points = Append(f.points, GroundTrackPoint(t))]

\* Mutant: a step whose propagation failed is taken again.
TracksStep_RetryOnFailure(f, result) ==
    IF Failed(result) THEN f
    ELSE [TracksBody(f, f.step_seconds * f.i, result) EXCEPT !.i = f.i + 1]

\* for i in range(num_steps): t = now + step * i, then the body.
TracksStep(f, result) ==
    [TracksBody(f, f.step_seconds * f.i, result) EXCEPT !.i = f.i + 1]

\* tracks[sat.name] = points
TracksEndSat(f) ==
    LET name == f.satellites[f.s].name
    IN  [f EXCEPT !.pc = "sat",
                  !.tracks = [n \in DOMAIN f.tracks \cup {name} |->
                                 IF n = name THEN f.points ELSE f.tracks[n]]]

GroundTracksEntry ==
    /\ call = "compute_ground_tracks"
    /\ gt.pc = "entry"
    /\ gt' = TracksEntry(gt)
    /\ UNCHANGED <<call, pp, cc, cc2, cp, hist>>

GroundTracksNextSat ==
    /\ call = "compute_ground_tracks"
    /\ gt.pc = "sat"
    /\ gt.s < Len(gt.satellites)
    /\ gt' = TracksNextSat(gt)
    /\ hist' = << >>
    /\ UNCHANGED <<call, pp, cc, cc2, cp>>

GroundTracksStep ==
    /\ call = "compute_ground_tracks"
    /\ gt.pc = "loop"
    /\ gt.i < gt.num_steps
    /\ \E result \in Samples :
         /\ gt' = TracksStep(gt, result)
         /\ hist' = Append(hist, result)
    /\ UNCHANGED <<call, pp, cc, cc2, cp>>

GroundTracksEndSat ==
    /\ call = "compute_ground_tracks"
    /\ gt.pc = "loop"
    /\ gt.i >= gt.num_steps
    /\ gt' = TracksEndSat(gt)
    /\ UNCHANGED <<call, pp, cc, cc2, cp, hist>>

GroundTracksReturn ==
    /\ call = "compute_ground_tracks"
    /\ gt.pc = "sat"
    /\ gt.s >= Len(gt.satellites)
    /\ gt' = [gt EXCEPT !.pc = "done"]
    /\ UNCHANGED <<call, pp, cc, cc2, cp, hist>>

----------------------------------------------------------------------------
(* calculate_position *)

\* What _propagate and _ecef_to_geodetic give on success: latitude and
\* longitude in 1e-5 degree, altitude in hundredths of a km, speed in
\* thousandths of a km/s.
PositionFixes ==
    {[lat |-> 3208534, lon |-> 3478176, alt |-> 40812, vel |-> 7661],
     [lat |-> -5160021, lon |-> -12233214, alt |-> 41977, vel |-> 7658]}

\* The outcome of satrec.sgp4 at one instant: an error code and, with error
\* code 0, the fix derived from it.
Outcomes ==
    {[error |-> e, fix |-> [lat |-> 0, lon |-> 0, alt |-> 0, vel |-> 0]] : e \in {1, 6}}
    \cup {[error |-> 0, fix |-> x] : x \in PositionFixes}

\* The instants a call can ask for: the clock starts at 0 and has moved on by
\* one at each later call.
Instants == 0..PositionCalls

\* round(x, ndigits) of x kept in units ten times finer than the result.
RoundLast(x) == 10 * RoundDiv(x, 10)

SatPosition(sat, fix, timestamp) ==
    [name          |-> sat.name,
     norad_id      |-> sat.norad_id,
     latitude      |-> RoundLast(fix.lat),
     longitude     |-> RoundLast(fix.lon),
     altitude_km   |-> RoundLast(fix.alt),
     velocity_km_s |-> RoundLast(fix.vel),
     timestamp     |-> timestamp]

\* return None
NoPosition == [name |-> None]

\* Mutant: the instant asked for is ignored, the clock is read at every call.
PositionTimestamp_AlwaysNow(timestamp, now) == now

\* if timestamp is None: timestamp = datetime.now(timezone.utc)
PositionTimestamp(timestamp, now) == IF timestamp = None THEN now ELSE timestamp

\* The value calculate_position(sat, timestamp) returns at clock reading now,
\* table[t] being what SGP4 gives for sat at t.
PositionReturned(sat, timestamp, table, now) ==
    LET at == PositionTimestamp(timestamp, now)
        result == table[at]
    IN  IF Failed(result) THEN NoPosition ELSE SatPosition(sat, result.fix, at)

\* A run of up to PositionCalls calls calculate_position(sat, timestamp).
PositionFrame(sat, timestamp, table) ==
    [pc |-> "call", sat |-> sat, timestamp |-> timestamp, table |-> table,
     now |-> 0, returned |-> << >>]

CalculatePosition ==
    /\ call = "calculate_position"
    /\ cp.pc = "call"
    /\ Len(cp.returned) < PositionCalls
    /\ cp' = [cp EXCEPT
                !.returned = Append(cp.returned,
                    PositionReturned(cp.sat, cp.timestamp, cp.table, cp.now)),
                !.now = cp.now + 1]
    /\ UNCHANGED <<call, pp, cc, gt, cc2, hist>>

----------------------------------------------------------------------------

InitPredictPasses ==
    /\ call = "predict_passes"
    /\ \E sat \in {SatA, SatB}, h \in Horizons, m \in MinElevations :
         pp = PassFrame(sat, h, m)
    /\ cc = Idle
    /\ gt = Idle
    /\ cc2 = Idle
    /\ cp = Idle
    /\ hist = << >>

InitCityCoverage ==
    /\ call = "compute_city_coverage"
    /\ pp = Idle
    /\ gt = Idle
    /\ cc2 = Idle
    /\ cp = Idle
    /\ hist = << >>
    /\ \E sl \in SatelliteLists, h \in Horizons, st \in StepChoices, m \in MinElevations :
         cc = CoverageFrame(sl, h, st, m)

InitGroundTracks ==
    /\ call = "compute_ground_tracks"
    /\ pp = Idle
    /\ cc = Idle
    /\ cc2 = Idle
    /\ cp = Idle
    /\ hist = << >>
    /\ \E sl \in TrackLists, h \in Horizons, st \in StepChoices :
         gt = TracksFrame(sl, h, st)

InitCalculatePosition ==
    /\ call = "calculate_position"
    /\ pp = Idle
    /\ cc = Idle
    /\ gt = Idle
    /\ cc2 = Idle
    /\ hist = << >>
    /\ \E sat \in {SatA, SatB}, ts \in Instants \cup {None}, table \in [Instants -> Outcomes] :
         cp = PositionFrame(sat, ts, table)

Init ==
    InitPredictPasses \/ InitCityCoverage \/ InitGroundTracks \/ InitCalculatePosition

Next ==
    \/ PredictPassesEntry
    \/ PredictPassesStep
    \/ PredictPassesReturn
    \/ CityCoverageEntry
    \/ CityCoverageNextSat
    \/ CityCoverageStep
    \/ CityCoverageEndSat
    \/ CityCoverageFinish
    \/ GroundTracksEntry
    \/ GroundTracksNextSat
    \/ GroundTracksStep
    \/ GroundTracksEndSat
    \/ GroundTracksReturn
    \/ CalculatePosition

Spec == Init /\ [][Next]_vars

----------------------------------------------------------------------------
(* predict_passes(sat) and compute_city_coverage(satellites) side by side   *)
(* on the same observer, horizon, 30 s grid and minimum elevation.          *)
(* _propagate is a function of (satellite, instant), so both scans see the  *)
(* same outcome at the same grid instant of the same satellite: the outcome *)
(* is drawn once and handed to both loop bodies.                            *)

Scanning(f, sat) == f.satellites[f.s] = sat

PairEntry ==
    /\ call = "pair"
    /\ pp.pc = "entry" /\ cc.pc = "entry"
    /\ pp' = PassEntry(pp)
    /\ cc' = CoverageEntry(cc)
    /\ UNCHANGED <<call, gt, cc2, cp, hist>>

PairNextSat ==
    /\ call = "pair"
    /\ cc.pc = "sat"
    /\ cc.s < Len(cc.satellites)
    /\ cc' = CoverageNextSat(cc)
    /\ UNCHANGED <<call, pp, gt, cc2, cp, hist>>

PairStep ==
    /\ call = "pair"
    /\ cc.pc = "loop"
    /\ cc.i < cc.num_steps
    /\ \E result \in Samples :
         /\ cc' = CoverageStep(cc, result)
         /\ pp' = IF Scanning(cc, pp.sat) THEN PassStep(pp, result) ELSE pp
    /\ UNCHANGED <<call, gt, cc2, cp, hist>>

PairEndSat ==
    /\ call = "pair"
    /\ cc.pc = "loop"
    /\ cc.i >= cc.num_steps
    /\ cc' = [cc EXCEPT !.pc = "sat"]
    /\ pp' = IF Scanning(cc, pp.sat) THEN PassReturn(pp) ELSE pp
    /\ UNCHANGED <<call, gt, cc2, cp, hist>>

PairFinish ==
    /\ call = "pair"
    /\ cc.pc = "sat"
    /\ cc.s >= Len(cc.satellites)
    /\ cc' = CoverageFinish(cc)
    /\ UNCHANGED <<call, pp, gt, cc2, cp, hist>>

PairLists == {<<SatA>>, <<SatB, SatA>>}

InitPair ==
    /\ call = "pair"
    /\ gt = Idle
    /\ cc2 = Idle
    /\ cp = Idle
    /\ hist = << >>
    /\ \E sl \in PairLists, m \in MinElevations :
         /\ cc = CoverageFrame(sl, PassStepSeconds * MaxSteps, PassStepSeconds, m)
         /\ \E k \in 1..Len(sl) : pp = PassFrame(sl[k], PassStepSeconds * MaxSteps, m)

NextPair == PairEntry \/ PairNextSat \/ PairStep \/ PairEndSat \/ PairFinish

SpecPair == InitPair /\ [][NextPair]_vars

----------------------------------------------------------------------------
(* Two calls of compute_city_coverage, cc and cc2, on the same observer,    *)
(* horizon, grid and minimum elevation, whose satellite lists differ in     *)
(* order or in membership.  cc2 scans its first satellite on its own and    *)
(* hist keeps the outcomes; the satellite both lists hold next is scanned   *)
(* by both calls on the same drawn outcomes; cc, when its list goes on,     *)
(* scans the satellite cc2 began with on the outcomes hist kept.            *)

TwoEntry ==
    /\ call = "two"
    /\ cc.pc = "entry" /\ cc2.pc = "entry"
    /\ cc' = CoverageEntry(cc)
    /\ cc2' = CoverageEntry(cc2)
    /\ UNCHANGED <<call, pp, gt, cp, hist>>

TwoFirstNextSat ==
    /\ call = "two"
    /\ cc2.pc = "sat" /\ cc2.s = 0
    /\ cc2' = CoverageNextSat(cc2)
    /\ hist' = << >>
    /\ UNCHANGED <<call, pp, cc, gt, cp>>

TwoFirstStep ==
    /\ call = "two"
    /\ cc2.pc = "loop" /\ cc2.s = 1
    /\ cc2.i < cc2.num_steps
    /\ \E result \in Samples :
         /\ cc2' = CoverageStep(cc2, result)
         /\ hist' = Append(hist, result)
    /\ UNCHANGED <<call, pp, cc, gt, cp>>

TwoFirstEndSat ==
    /\ call = "two"
    /\ cc2.pc = "loop" /\ cc2.s = 1
    /\ cc2.i >= cc2.num_steps
    /\ cc2' = [cc2 EXCEPT !.pc = "sat"]
    /\ UNCHANGED <<call, pp, cc, gt, cp, hist>>

TwoSharedNextSat ==
    /\ call = "two"
    /\ cc.pc = "sat" /\ cc.s = 0
    /\ cc2.pc = "sat" /\ cc2.s = 1
    /\ cc.satellites[1] = cc2.satellites[2]
    /\ cc' = CoverageNextSat(cc)
    /\ cc2' = CoverageNextSat(cc2)
    /\ UNCHANGED <<call, pp, gt, cp, hist>>

TwoSharedStep ==
    /\ call = "two"
    /\ cc.pc = "loop" /\ cc.s = 1
    /\ cc2.pc = "loop" /\ cc2.s = 2
    /\ cc.i < cc.num_steps
    /\ \E result \in Samples :
         /\ cc' = CoverageStep(cc, result)
         /\ cc2' = CoverageStep(cc2, result)
    /\ UNCHANGED <<call, pp, gt, cp, hist>>

TwoSharedEndSat ==
    /\ call = "two"
    /\ cc.pc = "loop" /\ cc.s = 1
    /\ cc2.pc = "loop" /\ cc2.s = 2
    /\ cc.i >= cc.num_steps
    /\ cc' = [cc EXCEPT !.pc = "sat"]
    /\ cc2' = [cc2 EXCEPT !.pc = "sat"]
    /\ UNCHANGED <<call, pp, gt, cp, hist>>

TwoLastNextSat ==
    /\ call = "two"
    /\ cc.pc = "sat" /\ cc.s = 1
    /\ cc.s < Len(cc.satellites)
    /\ cc.satellites[2] = cc2.satellites[1]
    /\ cc' = CoverageNextSat(cc)
    /\ UNCHANGED <<call, pp, gt, cc2, cp, hist>>

TwoLastStep ==
    /\ call = "two"
    /\ cc.pc = "loop" /\ cc.s = 2
    /\ cc.i < cc.num_steps
    /\ cc' = CoverageStep(cc, hist[cc.i + 1])
    /\ UNCHANGED <<call, pp, gt, cc2, cp, hist>>

TwoLastEndSat ==
    /\ call = "two"
    /\ cc.pc = "loop" /\ cc.s = 2
    /\ cc.i >= cc.num_steps
    /\ cc' = [cc EXCEPT !.pc = "sat"]
    /\ UNCHANGED <<call, pp, gt, cc2, cp, hist>>

TwoFinish ==
    /\ call = "two"
    /\ cc.pc = "sat" /\ cc.s >= 1 /\ cc.s >= Len(cc.satellites)
    /\ cc2.pc = "sat" /\ cc2.s >= Len(cc2.satellites)
    /\ cc' = CoverageFinish(cc)
    /\ cc2' = CoverageFinish(cc2)
    /\ UNCHANGED <<call, pp, gt, cp, hist>>

TwoSeconds == PassStepSeconds * (MaxSteps - 1)

InitTwo ==
    /\ call = "two"
    /\ pp = Idle
    /\ gt = Idle
    /\ cp = Idle
    /\ hist = << >>
    /\ \E sl \in {<<SatA>>, <<SatA, SatB>>}, m \in MinElevations :
         /\ cc = CoverageFrame(sl, TwoSeconds, PassStepSeconds, m)
         /\ cc2 = CoverageFrame(<<SatB, SatA>>, TwoSeconds, PassStepSeconds, m)

NextTwo ==
    \/ TwoEntry
    \/ TwoFirstNextSat
    \/ TwoFirstStep
    \/ TwoFirstEndSat
    \/ TwoSharedNextSat
    \/ TwoSharedStep
    \/ TwoSharedEndSat
    \/ TwoLastNextSat
    \/ TwoLastStep
    \/ TwoLastEndSat
    \/ TwoFinish

SpecTwo == InitTwo /\ [][NextTwo]_vars

----------------------------------------------------------------------------
(* Properties *)

Range(seq) == {seq[k] : k \in DOMAIN seq}

Called(f) == f # Idle

\* C1: every PassPrediction predict_passes emits or returns has
\* rise_time <= max_elevation_time < set_time and
\* duration_seconds = set_time - rise_time.
C1_PassTimesOrdered ==
    Called(pp) =>
        \A p \in Range(pp.passes) \cup Range(pp.returned) :
            /\ p.rise_time <= p.max_elevation_time
            /\ p.max_elevation_time < p.set_time
            /\ p.duration_seconds = p.set_time - p.rise_time

\* A returned pass whose peak lies strictly between its rise and its last
\* in-pass step.
C1_Witness ==
    /\ call = "predict_passes"
    /\ pp.pc = "done"
    /\ \E p \in Range(pp.returned) :
          /\ p.rise_time < p.max_elevation_time
          /\ p.max_elevation_time + PassStepSeconds < p.set_time

\* C2: the max_elevation_deg field of every emitted PassPrediction is at
\* least the caller's min_elevation.
C2_ReportedPeakAtLeastThreshold ==
    Called(pp) =>
        \A p \in Range(pp.passes) : p.max_elevation_deg >= pp.min_elevation

\* The (start, end, peak) of the passes / windows of one satellite, in order.
RECURSIVE PassTriples(_)
PassTriples(ps) ==
    IF ps = << >> THEN << >>
    ELSE <<<<ps[1].rise_time, ps[1].set_time, ps[1].max_elevation_deg>>>>
         \o PassTriples(Tail(ps))

RECURSIVE WindowTriples(_, _)
WindowTriples(ws, name) ==
    IF ws = << >> THEN << >>
    ELSE (IF ws[1].satellite_name = name
          THEN <<<<ws[1].start_time, ws[1].end_time, ws[1].max_elevation_deg>>>>
          ELSE << >>)
         \o WindowTriples(Tail(ws), name)

BothDone == call = "pair" /\ pp.pc = "done" /\ cc.pc = "done"

\* C3 (as stated): on the same satellite, grid, outcomes and minimum
\* elevation, the windows compute_city_coverage records for a satellite have
\* the start times, end times and peaks of the passes predict_passes emits.
C3_WindowsEqualPasses ==
    BothDone => WindowTriples(cc.report.windows, pp.sat.name) = PassTriples(pp.returned)

\* What one successful scan step of compute_city_coverage does to the window
\* state: the threshold min_elevation_deg decides opening and closing.
C3_ThresholdStep ==
    (cc.pc = "loop" /\ cc'.pc = "loop" /\ cc'.i = cc.i + 1 /\ ~Failed(cc'.result)) =>
        LET el == cc'.result.el
        IN  /\ cc'.in_view = (el >= cc.min_elevation_deg)
            /\ (~cc.in_view /\ cc'.in_view) => cc'.window_start = cc'.t
            /\ (cc.in_view /\ ~cc'.in_view) =>
                   /\ Len(cc'.windows) = Len(cc.windows) + 1
                   /\ cc'.windows[Len(cc'.windows)].start_time = cc.window_start
                   /\ cc'.windows[Len(cc'.windows)].end_time = cc'.t
            /\ ~(cc.in_view /\ ~cc'.in_view) => cc'.windows = cc.windows

\* With a positive threshold every pass predict_passes returns contains a
\* window of the same satellite with the same reported peak.
C3_PassHoldsWindow ==
    (cc.pc # "done" /\ cc'.pc = "done" /\ pp.pc = "done" /\ cc.min_elevation_deg > 0) =>
        \A p \in Range(pp.returned) :
            \E w \in Range(cc'.report.windows) :
                /\ w.satellite_name = p.satellite_name
                /\ p.rise_time <= w.start_time
                /\ w.end_time <= p.set_time
                /\ w.max_elevation_deg = p.max_elevation_deg

\* C3 (amended): compute_city_coverage runs, per satellite, a machine of the
\* same shape as predict_passes with min_elevation_deg in the place of the
\* horizon: a window opens at the first successful step with elevation >=
\* min_elevation_deg, closes at the first with elevation < min_elevation_deg
\* and every closed window is recorded; for min_elevation_deg > 0 each pass
\* predict_passes returns contains such a window with the same reported peak.
C3_ThresholdMachine == [][Called(cc) => (C3_ThresholdStep /\ C3_PassHoldsWindow)]_vars

\* Both returned, and a pass strictly contains a window of its satellite.
C3_Witness ==
    /\ BothDone
    /\ \E p \in Range(pp.returned) :
          \E w \in Range(cc.report.windows) :
              /\ w.satellite_name = p.satellite_name
              /\ p.rise_time < w.start_time
              /\ w.end_time < p.set_time

Active(w, span) == w.start_time < span.to /\ span.from < w.end_time

\* C4: no recorded window is active at any instant inside a measured gap.
C4_GapsAreIdle ==
    (call = "compute_city_coverage" /\ cc.pc = "done") =>
        LET spans == GapSpans(cc.report.windows, cc.total_seconds)
        IN  /\ cc.gaps = [k \in 1..Len(spans) |-> spans[k].to - spans[k].from]
            /\ \A k \in 1..Len(spans) :
                  \A w \in Range(cc.report.windows) : ~Active(w, spans[k])

\* C5: a pass or window still open after the last scan step is not emitted
\* and is not counted: every emitted pass closed at a scan step, the open
\* pass is not in the returned list, the open window of a satellite is not
\* in the windows list, and the report counts the recorded windows only.
C5_OpenPassDropped ==
    /\ (Called(pp) /\ pp.pc = "done") =>
          /\ \A p \in Range(pp.returned) :
                p.set_time <= PassStepSeconds * (pp.steps - 1)
          /\ pp.in_pass => \A p \in Range(pp.returned) : p.rise_time # pp.rise_time
          /\ pp.returned = pp.passes
    /\ (Called(cc) /\ cc.pc \in {"sat", "done"} /\ cc.s >= 1 /\ cc.in_view) =>
          \A w \in Range(cc.windows) :
              ~(w.satellite_name = cc.satellites[cc.s].name
                /\ w.start_time = cc.window_start)
    /\ (Called(cc) /\ cc.pc = "done") =>
          /\ cc.report.windows = cc.windows
          /\ cc.report.num_passes = Len(cc.windows)
          /\ cc.report.total_coverage_seconds = TotalCoverage(cc.windows)
          /\ \A w \in Range(cc.windows) :
                w.end_time <= cc.step_seconds * (cc.num_steps - 1)

\* predict_passes returned with a pass still open whose peak reaches the
\* threshold, after it had emitted an earlier pass.
C5_Witness ==
    /\ call = "predict_passes"
    /\ pp.pc = "done"
    /\ pp.in_pass
    /\ pp.max_el >= pp.min_elevation
    /\ pp.returned # << >>

\* C6: a scan step whose propagation fails changes nothing but the loop
\* index (and the locals t and result): scan state and output are kept, the
\* loop stays in place and goes on to the next index.
C6_FailedStepIsSkipped ==
    [][ /\ (Called(pp) /\ pp.pc = "loop" /\ pp'.i # pp.i /\ Failed(pp'.result)) =>
            pp' = [pp EXCEPT !.i = pp.i + 1, !.t = PassStepSeconds * pp.i,
                             !.result = pp'.result]
        /\ (Called(cc) /\ cc.pc = "loop" /\ cc'.i # cc.i /\ Failed(cc'.result)) =>
            cc' = [cc EXCEPT !.i = cc.i + 1, !.t = cc.step_seconds * cc.i,
                             !.result = cc'.result]
      ]_vars

\* A failed step inside an open pass, followed by a step that was evaluated.
C6_Witness ==
    /\ call = "predict_passes"
    /\ pp.pc = "loop"
    /\ pp.in_pass
    /\ Failed(pp.result)
    /\ pp.rise_time < pp.t
    /\ pp.i < pp.steps

\* C7: a report with zero windows has coverage_percentage 0, exactly one
\* gap, the whole horizon, and avg_gap_minutes = max_gap_minutes = the
\* horizon in minutes (tenths of a minute are 6 s).
C7_NoWindowsReport ==
    (Called(cc) /\ cc.pc = "done" /\ cc.report.num_passes = 0) =>
        /\ cc.report.coverage_percentage = 0
        /\ cc.gaps = <<cc.total_seconds>>
        /\ cc.report.avg_gap_minutes * 6 = cc.total_seconds
        /\ cc.report.max_gap_minutes * 6 = cc.total_seconds

\* A report with zero windows after two satellites were scanned.
C7_Witness ==
    /\ call = "compute_city_coverage"
    /\ cc.pc = "done"
    /\ cc.report.num_passes = 0
    /\ cc.num_steps > 1
    /\ Len(cc.satellites) = 2

Abs(x) == IF x >= 0 THEN x ELSE -x

\* C8 (as stated): coverage_percentage equals sum of durations / horizon *
\* 100, total_coverage_seconds is the sum and num_passes the window count.
C8_ExactPercentage ==
    (Called(cc) /\ cc.pc = "done") =>
        /\ cc.report.total_coverage_seconds = TotalCoverage(cc.report.windows)
        /\ cc.report.num_passes = Len(cc.report.windows)
        /\ cc.report.coverage_percentage * cc.total_seconds
             = cc.report.total_coverage_seconds * 10000

\* C8 (amended): coverage_percentage is sum of durations / horizon * 100
\* rounded to two decimals (within 0.005 of it), not merged and not clamped;
\* total_coverage_seconds is the sum and num_passes the window count.
C8_RoundedPercentage ==
    (Called(cc) /\ cc.pc = "done") =>
        /\ cc.report.total_coverage_seconds = TotalCoverage(cc.report.windows)
        /\ cc.report.num_passes = Len(cc.report.windows)
        /\ 2 * Abs(cc.report.coverage_percentage * cc.total_seconds
                     - cc.report.total_coverage_seconds * 10000) <= cc.total_seconds

\* A report above 100 %: windows of two satellites overlap.
C8_Over100 ==
    /\ call = "compute_city_coverage"
    /\ cc.pc = "done"
    /\ cc.report.coverage_percentage > 10000
    /\ \E v, w \in Range(cc.report.windows) :
          v.satellite_name # w.satellite_name /\ Active(v, [from |-> w.start_time,
                                                             to |-> w.end_time])

Count(ws, w) == Cardinality({k \in 1..Len(ws) : ws[k] = w})

\* C9: the windows of the report are the collected windows of all
\* satellites, each as often as collected, in non-decreasing start_time.
C9_WindowsSorted ==
    [][(Called(cc) /\ cc.pc = "sat" /\ cc'.pc = "done") =>
          LET ws == cc'.report.windows
          IN  /\ \A k \in 1..Len(ws) - 1 : ws[k].start_time <= ws[k + 1].start_time
              /\ Len(ws) = Len(cc.windows)
              /\ \A w \in Range(cc.windows) \cup Range(ws) :
                    Count(ws, w) = Count(cc.windows, w)
      ]_vars

\* A report whose first window belongs to the satellite scanned second.
C9_Witness ==
    /\ call = "compute_city_coverage"
    /\ cc.pc = "done"
    /\ Len(cc.satellites) = 2
    /\ Len(cc.report.windows) >= 2
    /\ cc.report.windows[1].satellite_name = cc.satellites[2].name
    /\ cc.report.windows[2].satellite_name = cc.satellites[1].name

Misused(f) == f.step_seconds <= 0 \/ f.total_seconds = 0

\* C10: a call with step_seconds <= 0 or a zero horizon ends, before any
\* scan step, in an input-validation failure, never in a division by zero
\* and never in a returned result.
C10_MisuseRejected ==
    /\ (Called(cc) /\ Misused(cc)) =>
          /\ cc.pc \in {"entry", "raised"}
          /\ cc.error # "ZeroDivisionError"
    /\ (Called(gt) /\ Misused(gt)) =>
          /\ gt.pc \in {"entry", "raised"}
          /\ gt.error # "ZeroDivisionError"

TwoDone == call = "two" /\ cc.pc = "done" /\ cc2.pc = "done"

\* C11: two calls whose satellite lists are permutations of each other, on
\* the same propagation outcomes, report the same gap list, the same
\* avg_gap_minutes and the same max_gap_minutes.
C11_OrderIndependent ==
    (TwoDone /\ Range(cc.satellites) = Range(cc2.satellites)) =>
        /\ cc.gaps = cc2.gaps
        /\ cc.report.avg_gap_minutes = cc2.report.avg_gap_minutes
        /\ cc.report.max_gap_minutes = cc2.report.max_gap_minutes

\* The points a scan of one satellite records on the outcomes hs, the k-th
\* outcome being that of instant step_seconds * (k - 1).
RECURSIVE PointsOf(_, _)
PointsOf(hs, step_seconds) ==
    IF hs = << >> THEN << >>
    ELSE LET init == PointsOf(SubSeq(hs, 1, Len(hs) - 1), step_seconds)
         IN  IF Failed(hs[Len(hs)]) THEN init
             ELSE Append(init, [timestamp |-> step_seconds * (Len(hs) - 1)])

\* The satellite at position j of the list has been scanned to the end.
Tracked(f, j) == j < f.s \/ (j = f.s /\ f.pc \in {"sat", "done"})

\* C12: compute_ground_tracks records one point per successful scan step of
\* a satellite and none for a failed one, in strictly increasing timestamp
\* order, and from the end of a satellite's scan on the result maps that
\* satellite's name to that satellite's own track.
C12_OwnTrackPerSatellite ==
    [][Called(gt) =>
          /\ (gt.pc = "loop" /\ gt'.pc = "loop") =>
                gt'.points = PointsOf(hist', gt.step_seconds)
          /\ (gt.pc = "loop" /\ gt'.pc = "sat") =>
                /\ gt.satellites[gt.s].name \in DOMAIN gt'.tracks
                /\ gt'.tracks[gt.satellites[gt.s].name] = PointsOf(hist, gt.step_seconds)
                /\ Len(hist) = Max(gt.num_steps, 0)
                /\ \A k \in 1..Len(gt.points) - 1 :
                      gt.points[k].timestamp < gt.points[k + 1].timestamp
          /\ \A j \in 1..Len(gt.satellites) :
                (Tracked(gt, j) /\ gt.pc # "done") =>
                    /\ gt.satellites[j].name \in DOMAIN gt'.tracks
                    /\ gt'.tracks[gt.satellites[j].name] = gt.tracks[gt.satellites[j].name]
      ]_vars

\* C13: every call of calculate_position returns None exactly when SGP4
\* reports a nonzero error code for the instant asked, and otherwise the
\* SatPosition of that instant; calls with the same satellite and the same
\* explicit timestamp return identical results.
C13_NoneIffErrorCode ==
    Called(cp) =>
        /\ \A k \in 1..Len(cp.returned) :
              LET at == IF cp.timestamp = None THEN k - 1 ELSE cp.timestamp
              IN  /\ (cp.returned[k] = NoPosition) <=> (cp.table[at].error # 0)
                  /\ cp.returned[k] # NoPosition =>
                        /\ cp.returned[k].name = cp.sat.name
                        /\ cp.returned[k].norad_id = cp.sat.norad_id
                        /\ cp.returned[k].timestamp = at
                        /\ Abs(cp.returned[k].latitude - cp.table[at].fix.lat) <= 5
        /\ cp.timestamp # None =>
              \A j, k \in 1..Len(cp.returned) : cp.returned[j] = cp.returned[k]

\* Two calls with one explicit timestamp returned a SatPosition while the
\* clock moved between instants at which SGP4 gives different outcomes.
C13_Witness ==
    /\ call = "calculate_position"
    /\ cp.timestamp = 1
    /\ Len(cp.returned) = PositionCalls
    /\ cp.returned[1] # NoPosition
    /\ cp.table[0] # cp.table[1]

\* C14 (as stated): avg_pass_duration_seconds is total coverage / number of
\* windows (0 without windows), avg_gap_minutes the mean and max_gap_minutes
\* the maximum of the gap list in minutes (a tenth of a minute is 6 s).
C14_ExactAverages ==
    (Called(cc) /\ cc.pc = "done") =>
        LET r == cc.report
        IN  /\ r.avg_pass_duration_seconds * r.num_passes = r.total_coverage_seconds * 10
            /\ r.num_passes = 0 => r.avg_pass_duration_seconds = 0
            /\ r.avg_gap_minutes * Len(cc.gaps) * 60 = Sum(cc.gaps) * 10
            /\ r.max_gap_minutes * 60 = MaxOf(cc.gaps) * 10

\* C14 (amended): the three fields are those quotients rounded to one
\* decimal, each within 0.05 of its quotient; avg_pass_duration_seconds is 0
\* without windows.
C14_RoundedAverages ==
    (Called(cc) /\ cc.pc = "done") =>
        LET r == cc.report
        IN  /\ 2 * Abs(r.avg_pass_duration_seconds * r.num_passes
                         - r.total_coverage_seconds * 10) <= r.num_passes
            /\ r.num_passes = 0 => r.avg_pass_duration_seconds = 0
            /\ 2 * Abs(r.avg_gap_minutes * Len(cc.gaps) * 60 - Sum(cc.gaps) * 10)
                 <= Len(cc.gaps) * 60
            /\ 2 * Abs(r.max_gap_minutes * 60 - MaxOf(cc.gaps) * 10) <= 60

\* A report on two windows of different lengths and two gaps of different
\* lengths whose mean is no whole number of tenths of a minute.
C14_Witness ==
    /\ call = "compute_city_coverage"
    /\ cc.pc = "done"
    /\ Len(cc.gaps) = 2
    /\ cc.gaps[1] # cc.gaps[2]
    /\ cc.report.avg_gap_minutes * Len(cc.gaps) * 60 # Sum(cc.gaps) * 10
    /\ cc.report.num_passes = 2
    /\ cc.report.windows[1].duration_seconds # cc.report.windows[2].duration_seconds

WindowsOf(ws, name) == SelectSeq(ws, LAMBDA w : w.satellite_name = name)

FreshScan(f) == ~f.in_view /\ f.window_start = None /\ f.max_el = 0 /\ f.i = 0

\* C15: every satellite's scan starts from the reset state (in_view False,
\* window_start None, max_el 0), and two calls on the same outcomes whose
\* lists hold other satellites besides, or before instead of after, report
\* for each common satellite the same windows, overlapping windows of
\* different satellites included.
C15_WindowsPerSatellite ==
    [][call = "two" =>
          /\ (cc.pc = "sat" /\ cc'.pc = "loop") => FreshScan(cc')
          /\ (cc2.pc = "sat" /\ cc2'.pc = "loop") => FreshScan(cc2')
          /\ (cc.pc = "sat" /\ cc'.pc = "done") =>
                \A sat \in Range(cc.satellites) \cap Range(cc2.satellites) :
                    WindowsOf(cc'.report.windows, sat.name)
                        = WindowsOf(cc2'.report.windows, sat.name)
      ]_vars

\* The call on [A] and the call on [B, A] both returned; B was still in view
\* when its scan ended, and the longer list reports a window of B and a
\* window of A over the same interval with the same peak.
C15_Witness ==
    /\ TwoDone
    /\ cc.satellites = <<SatA>>
    /\ hist # << >>
    /\ ~Failed(hist[Len(hist)])
    /\ hist[Len(hist)].el >= cc2.min_elevation_deg
    /\ \E v, w \in Range(cc2.report.windows) :
          /\ v.satellite_name = "B"
          /\ w.satellite_name = "A"
          /\ v.start_time = w.start_time
          /\ v.end_time = w.end_time
          /\ v.max_elevation_deg = w.max_elevation_deg

\* The instant of the k-th outcome predict_passes has seen.
StepTime(k) == PassStepSeconds * (k - 1)

\* The indices of the successful steps seen so far at instants in [from, to).
SuccessfulIn(from, to) ==
    {k \in 1..Len(hist) : ~Failed(hist[k]) /\ from <= StepTime(k) /\ StepTime(k) < to}

PeakOver(ks) == CHOOSE e \in {hist[k].el : k \in ks} : \A k \in ks : hist[k].el <= e

FirstAt(ks, e) == CHOOSE k \in ks : hist[k].el = e /\ \A j \in ks : hist[j].el = e => k <= j

\* The running peak of the open pass is the maximum over the successful
\* steps since its rise, at the earliest step attaining it.
OpenPeakIsFirstMaximum ==
    (pp.pc = "loop" /\ pp.in_pass) =>
        LET ks == SuccessfulIn(pp.rise_time, StepTime(Len(hist) + 1))
        IN  /\ ks # {}
            /\ pp.max_el = PeakOver(ks)
            /\ pp.max_el_time = StepTime(FirstAt(ks, PeakOver(ks)))

\* C18 (as stated): max_elevation_deg of every emitted pass is the maximum
\* elevation over the successful steps in [rise_time, set_time) and
\* max_elevation_time the earliest step attaining it.
C18_PeakIsMaximum ==
    (call = "predict_passes" /\ pp.pc # "entry") =>
        /\ OpenPeakIsFirstMaximum
        /\ \A p \in Range(pp.passes) :
              LET ks == SuccessfulIn(p.rise_time, p.set_time)
              IN  /\ ks # {}
                  /\ p.max_elevation_deg = PeakOver(ks)
                  /\ p.max_elevation_time = StepTime(FirstAt(ks, PeakOver(ks)))

\* C18 (amended): max_elevation_deg is that maximum rounded to one decimal;
\* max_elevation_time is the earliest step attaining the unrounded maximum,
\* and the same holds of the running peak of the open pass at every step.
C18_PeakIsRoundedMaximum ==
    (call = "predict_passes" /\ pp.pc # "entry") =>
        /\ OpenPeakIsFirstMaximum
        /\ \A p \in Range(pp.passes) :
              LET ks == SuccessfulIn(p.rise_time, p.set_time)
              IN  /\ ks # {}
                  /\ p.max_elevation_deg = Round1(PeakOver(ks))
                  /\ p.max_elevation_time = StepTime(FirstAt(ks, PeakOver(ks)))

\* A returned pass that reached its maximum after its rise and stayed at it
\* for another step.
C18_Witness ==
    /\ call = "predict_passes"
    /\ pp.pc = "done"
    /\ \E p \in Range(pp.returned) :
          LET ks == SuccessfulIn(p.rise_time, p.set_time)
          IN  /\ p.rise_time < p.max_elevation_time
              /\ \E k \in ks : /\ StepTime(k) > p.max_elevation_time
                               /\ hist[k].el = PeakOver(ks)

\* What one scan step of predict_passes does to the BELOW_HORIZON / IN_PASS
\* state: a failed step keeps it, a successful one makes it el > 0; the
\* output changes only on leaving IN_PASS.
HorizonStep ==
    (pp.pc = "loop" /\ pp'.pc = "loop") =>
        LET r == pp'.result
            t == pp'.t
        IN  /\ pp'.in_pass = IF Failed(r) THEN pp.in_pass ELSE r.el > 0
            /\ (~pp.in_pass /\ pp'.in_pass) =>
                  /\ pp'.rise_time = t
                  /\ pp'.max_el = r.el
                  /\ pp'.max_el_time = t
            /\ (pp.in_pass /\ ~pp'.in_pass) =>
                  \/ pp'.passes = pp.passes
                  \/ /\ Len(pp'.passes) = Len(pp.passes) + 1
                     /\ SubSeq(pp'.passes, 1, Len(pp.passes)) = pp.passes
                     /\ pp'.passes[Len(pp'.passes)].rise_time = pp.rise_time
                     /\ pp'.passes[Len(pp'.passes)].set_time = t
            /\ ~(pp.in_pass /\ ~pp'.in_pass) => pp'.passes = pp.passes

\* Every emitted pass has elevation > 0 at each successful step in
\* [rise_time, set_time), a successful step at rise_time, and a successful
\* step with elevation <= 0 at set_time.
EmittedAboveHorizon ==
    \A p \in Range(pp.passes) :
        /\ \A k \in SuccessfulIn(p.rise_time, p.set_time) : hist[k].el > 0
        /\ \E k \in SuccessfulIn(p.rise_time, p.set_time) : StepTime(k) = p.rise_time
        /\ \E k \in 1..Len(hist) :
              StepTime(k) = p.set_time /\ ~Failed(hist[k]) /\ hist[k].el <= 0

\* C19: the scan starts in BELOW_HORIZON and changes state only from
\* BELOW_HORIZON to IN_PASS at a successful step with elevation > 0 (taking
\* rise_time, max_el and max_el_time from that step) and from IN_PASS to
\* BELOW_HORIZON at a successful step with elevation <= 0 (the set_time of
\* the pass, if one is emitted); every emitted pass is above the horizon at
\* each successful step in [rise_time, set_time) and not above it at set_time.
C19_HorizonMachine ==
    [][call = "predict_passes" =>
          /\ (pp.pc = "entry" /\ pp'.pc = "loop") => (~pp'.in_pass /\ pp'.passes = << >>)
          /\ HorizonStep
          /\ (pp.pc = "loop") => EmittedAboveHorizon
      ]_vars

\* Two passes were returned, the second with a lower peak than the first,
\* reached at its rise.
C19_Witness ==
    /\ call = "predict_passes"
    /\ pp.pc = "done"
    /\ Len(pp.returned) = 2
    /\ pp.returned[2].max_elevation_deg < pp.returned[1].max_elevation_deg
    /\ pp.returned[2].max_elevation_time = pp.returned[2].rise_time

\* C20: the passes predict_passes holds and returns are in strictly
\* increasing rise_time, each set_time strictly earlier than the next
\* rise_time, and the returned list is the list in the order of emission.
C20_PassesDisjoint ==
    (call = "predict_passes" /\ pp.pc # "entry") =>
        /\ \A k \in 1..Len(pp.passes) - 1 :
              /\ pp.passes[k].rise_time < pp.passes[k + 1].rise_time
              /\ pp.passes[k].set_time < pp.passes[k + 1].rise_time
        /\ \A p \in Range(pp.passes) : p.rise_time < p.set_time
        /\ pp.pc = "done" => pp.returned = pp.passes

\* Two passes were returned, the second rising at the step after the first
\* one set.
C20_Witness ==
    /\ call = "predict_passes"
    /\ pp.pc = "done"
    /\ Len(pp.returned) = 2
    /\ pp.returned[2].rise_time = pp.returned[1].set_time + PassStepSeconds

\* The windows the two calls hold for the satellite whose outcomes hist keeps.
RecordedOfFirst ==
    {w \in Range(cc.windows) \cup Range(cc2.windows) :
        w.satellite_name = cc2.satellites[1].name}

\* The successful steps of hist at instants in [from, to), the k-th outcome
\* being that of instant step * (k - 1).
ScanSuccessfulIn(step, from, to) ==
    {k \in 1..Len(hist) : ~Failed(hist[k]) /\ from <= step * (k - 1) /\ step * (k - 1) < to}

\* Start, steps inside and end of window w against the threshold.
WindowOverThreshold(w, step, min) ==
    LET ks == ScanSuccessfulIn(step, w.start_time, w.end_time)
    IN  /\ \E k \in ks : step * (k - 1) = w.start_time
        /\ \A k \in ks : hist[k].el >= min
        /\ \E k \in 1..Len(hist) :
              step * (k - 1) = w.end_time /\ ~Failed(hist[k]) /\ hist[k].el < min
        /\ w.duration_seconds = w.end_time - w.start_time
        /\ w.duration_seconds > 0

\* C21 (as stated): every recorded window has elevation >= min_elevation_deg
\* at start_time and at each successful step in [start_time, end_time),
\* elevation < min_elevation_deg at end_time, max_elevation_deg the maximum
\* over those steps and duration_seconds = end_time - start_time > 0.
C21_WindowExactPeak ==
    call = "two" =>
        \A w \in RecordedOfFirst :
            /\ WindowOverThreshold(w, cc2.step_seconds, cc2.min_elevation_deg)
            /\ w.max_elevation_deg
                 = PeakOver(ScanSuccessfulIn(cc2.step_seconds, w.start_time, w.end_time))

\* C21 (amended): the same, with max_elevation_deg the maximum over those
\* steps rounded to one decimal.
C21_WindowRoundedPeak ==
    call = "two" =>
        \A w \in RecordedOfFirst :
            /\ WindowOverThreshold(w, cc2.step_seconds, cc2.min_elevation_deg)
            /\ w.max_elevation_deg
                 = Round1(PeakOver(ScanSuccessfulIn(cc2.step_seconds, w.start_time, w.end_time)))

\* Both calls returned a window of that satellite which holds a failed step
\* and whose peak has a second decimal.
C21_Witness ==
    /\ TwoDone
    /\ Len(cc.satellites) = 2
    /\ \E w \in Range(cc.report.windows) :
          /\ w \in Range(cc2.report.windows)
          /\ w \in RecordedOfFirst
          /\ w.max_elevation_deg
               # PeakOver(ScanSuccessfulIn(cc2.step_seconds, w.start_time, w.end_time))
          /\ \E k \in 1..Len(hist) :
                /\ Failed(hist[k])
                /\ w.start_time < cc2.step_seconds * (k - 1)
                /\ cc2.step_seconds * (k - 1) < w.end_time

\* C22: a returned report has a non-empty gap list; with at least one
\* window every window ends at a scan step, strictly before the end of the
\* horizon, and the last gap of the list is the positive stretch from the end
\* of the last window to the end of the horizon.
C22_TrailingGapPositive ==
    (Called(cc) /\ cc.pc = "done") =>
        /\ cc.gaps # << >>
        /\ cc.report.num_passes >= 1 =>
              LET ws == cc.report.windows
                  last == ws[Len(ws)]
              IN  /\ \A w \in Range(ws) :
                        /\ w.end_time <= cc.step_seconds * (cc.num_steps - 1)
                        /\ w.end_time < cc.total_seconds
                  /\ cc.gaps[Len(cc.gaps)] = cc.total_seconds - last.end_time
                  /\ cc.gaps[Len(cc.gaps)] > 0

\* A report whose only gap is the trailing one: a window opened at the first
\* step and closed at the last, on a horizon that is no multiple of the step.
C22_Witness ==
    /\ call = "compute_city_coverage"
    /\ cc.pc = "done"
    /\ cc.report.num_passes >= 1
    /\ Len(cc.gaps) = 1
    /\ cc.report.windows[1].start_time = 0
    /\ cc.report.windows[Len(cc.report.windows)].end_time
         = cc.step_seconds * (cc.num_steps - 1)
    /\ cc.gaps[1] > cc.step_seconds

\* C23: in the report of a call on a single satellite the gap list and the
\* windows add up to the horizon: sum of gaps + total_coverage_seconds =
\* hours * 3600.
C23_GapsAndWindowsPartition ==
    (Called(cc) /\ cc.pc = "done" /\ Len(cc.satellites) = 1) =>
        Sum(cc.gaps) + cc.report.total_coverage_seconds = cc.total_seconds

\* A single-satellite report with a gap before its first window, after its
\* last one and between every two.
C23_Witness ==
    /\ call = "compute_city_coverage"
    /\ cc.pc = "done"
    /\ Len(cc.satellites) = 1
    /\ cc.report.num_passes >= 1
    /\ cc.report.windows[1].start_time > 0
    /\ Len(cc.gaps) = cc.report.num_passes + 1

\* floor(n / d) for d # 0.
Floor(n, d) == IF d > 0 THEN n \div d ELSE (-n) \div (-d)

\* The instants scan start + i * step, i in 0 .. floor(horizon / step) - 1.
Grid(step, total_seconds) == {step * i : i \in 0..(Floor(total_seconds, step) - 1)}

OnGrid(times, step, total_seconds) ==
    \A t \in times : t \in Grid(step, total_seconds) /\ t < total_seconds

\* C24: every scan step of predict_passes and of compute_city_coverage
\* samples a grid instant, before the end of the horizon; every rise, set,
\* peak, start and end time is a grid instant and every emitted duration is a
\* positive whole multiple of the step.
C24_ScanOnGrid ==
    [][ /\ (Called(pp) /\ pp.pc = "loop" /\ pp'.pc = "loop") =>
              /\ pp'.t = PassStepSeconds * pp.i
              /\ OnGrid({pp'.t}, PassStepSeconds, pp.total_seconds)
        /\ (Called(cc) /\ cc.pc = "loop" /\ cc'.pc = "loop") =>
              /\ cc'.t = cc.step_seconds * cc.i
              /\ OnGrid({cc'.t}, cc.step_seconds, cc.total_seconds)
        /\ Called(pp) =>
              \A q \in Range(pp'.passes) :
                  /\ OnGrid({q.rise_time, q.set_time, q.max_elevation_time},
                            PassStepSeconds, pp.total_seconds)
                  /\ q.duration_seconds > 0
                  /\ q.duration_seconds % PassStepSeconds = 0
        /\ Called(cc) =>
              \A w \in Range(cc'.windows) :
                  /\ OnGrid({w.start_time, w.end_time}, cc.step_seconds, cc.total_seconds)
                  /\ w.duration_seconds > 0
                  /\ w.duration_seconds % cc.step_seconds = 0
      ]_vars

\* predict_passes returned a pass that rose at the first grid instant and set
\* at the last one.
C24_Witness ==
    /\ call = "predict_passes"
    /\ pp.pc = "done"
    /\ pp.steps > 2
    /\ \E q \in Range(pp.returned) :
          /\ q.rise_time = 0
          /\ q.set_time = PassStepSeconds * (pp.steps - 1)

\* The three scans called with a positive step and horizon; two satellites
\* are scanned with the step that does not divide the horizon.
InitScan ==
    /\ InitPredictPasses \/ InitCityCoverage \/ InitGroundTracks
    /\ Called(pp) => pp.total_seconds > 0
    /\ Called(cc) => cc.total_seconds > 0 /\ cc.step_seconds > 0
                     /\ (Len(cc.satellites) < 2 \/ cc.step_seconds # PassStepSeconds)
    /\ Called(gt) => gt.total_seconds > 0 /\ gt.step_seconds > 0
                     /\ (Len(gt.satellites) < 2 \/ gt.step_seconds # PassStepSeconds)

NextScan ==
    \/ PredictPassesEntry
    \/ PredictPassesStep
    \/ PredictPassesReturn
    \/ CityCoverageEntry
    \/ CityCoverageNextSat
    \/ CityCoverageStep
    \/ CityCoverageEndSat
    \/ CityCoverageFinish
    \/ GroundTracksEntry
    \/ GroundTracksNextSat
    \/ GroundTracksStep
    \/ GroundTracksEndSat
    \/ GroundTracksReturn

\* A called function that can take a step eventually takes one: the
\* interpreter runs it until it returns or raises.
SpecFair == InitScan /\ [][NextScan]_vars /\ WF_vars(NextScan)

PositiveScan(f, step) == Called(f) /\ step > 0 /\ f.total_seconds > 0

\* One frame's part of C25: a scan step moves i on by exactly one, failed or
\* not, and the loop is left only at i = floor(horizon / step).
ExactSteps(f, g, step, steps) ==
    /\ (f.pc = "loop" /\ g.pc = "loop") =>
           /\ g.i = f.i + 1
           /\ f.i < Floor(f.total_seconds, step)
    /\ (f.pc = "loop" /\ g.pc # "loop") =>
           /\ f.i = Floor(f.total_seconds, step)
           /\ steps = Floor(f.total_seconds, step)
           /\ g.pc \in {"sat", "done"}

\* C25: for a positive step and horizon predict_passes, compute_city_coverage
\* and compute_ground_tracks each return, after exactly
\* floor(horizon / step) scan steps per satellite whatever the propagation
\* gives; a failed step is neither the last one nor taken again.
C25_TerminatesAfterExactSteps ==
    /\ [][ /\ PositiveScan(pp, PassStepSeconds) =>
                 /\ ExactSteps(pp, pp', PassStepSeconds, pp.steps)
                 /\ pp'.pc = "loop" => Len(hist') = pp'.i
           /\ PositiveScan(gt, gt.step_seconds) =>
                 /\ ExactSteps(gt, gt', gt.step_seconds, gt.num_steps)
                 /\ gt'.pc = "loop" => Len(hist') = gt'.i
           /\ PositiveScan(cc, cc.step_seconds) =>
                 ExactSteps(cc, cc', cc.step_seconds, cc.num_steps)
         ]_vars
    /\ PositiveScan(pp, PassStepSeconds) ~> (pp.pc = "done")
    /\ PositiveScan(gt, gt.step_seconds) ~> (gt.pc = "done" /\ gt.s = Len(gt.satellites))
    /\ PositiveScan(cc, cc.step_seconds) ~> (cc.pc = "done" /\ cc.s = Len(cc.satellites))

\* compute_ground_tracks returned after a scan of more than two steps in
\* which the last satellite's propagation both failed and succeeded.
C25_Witness ==
    /\ call = "compute_ground_tracks"
    /\ gt.pc = "done"
    /\ gt.step_seconds > 0
    /\ gt.num_steps > 2
    /\ Len(hist) = gt.num_steps
    /\ \E j, k \in 1..Len(hist) : Failed(hist[j]) /\ ~Failed(hist[k])

============================================================================
